---- MODULE Spec2Model ----
(***************************************************************************)
(* Model of the crossword CSP solver of src/generate.py                    *)
(* (class CrosswordCreator): node consistency, AC-3, backtracking search   *)
(* with the MRV / degree / LCV heuristics and the inference step; and of   *)
(* the tic-tac-toe player of src/tictactoe.py.                             *)
(*                                                                         *)
(* Words are sequences of letters.  Indices into words are kept 0-based as *)
(* in the source; a word w is read at source index k as w[k + 1].          *)
(***************************************************************************)
EXTENDS Integers, Sequences, FiniteSets, TLC

VARIABLES
    crossword,   \* self.crossword: [variables, words], fixed after construction
    keys,        \* iteration order of the dict self.domains (fixed at construction)
    domains,     \* self.domains: slot -> set of words
    pc,          \* position of the single thread of control inside solve()
    queue,       \* ac3's local worklist
    ac3from,     \* who called the running ac3: "solve" (arcs=None) or "inferences"
    ac3ret,      \* value returned by the last finished ac3 call ("unset" before)
    assignment,  \* the one dict object threaded through every backtrack call
    stack,       \* the active backtrack frames, innermost last
    varCopy,     \* inferences' local deep copy of self.domains
    result,      \* the assignment solve() returned, when outcome = "assignment"
    outcome,     \* "running", "assignment", "None", or the name of the raised exception
    rev,         \* record of the last revise call (arguments, domains before/after, return)
    call,        \* a method called on its own: its name, arguments and return value
    board        \* tictactoe.py: the board object held by the caller of its functions

vars == <<crossword, keys, domains, pc, queue, ac3from, ac3ret, assignment,
          stack, varCopy, result, outcome, rev, call, board>>

----------------------------------------------------------------------------
(* Bounds of the model *)

\* greatest number of words in the vocabulary file
MaxWords == 3

\* the words a vocabulary is drawn from
WordUniverse ==
    { <<"A","A","A">>, <<"B","B","B">>, <<"A","B","C">>, <<"A","B","A">>,
      <<"A","B">> }

----------------------------------------------------------------------------
(* The puzzle structure (crossword.py: Variable, Crossword) *)

ACROSS == "across"
DOWN == "down"

Slot(i, j, direction, length) ==
    [i |-> i, j |-> j, direction |-> direction, length |-> length]

\* the puzzle structures explored: the slot set of each
Structures ==
    { \* one across and one down slot crossing at across[1] / down[0]
      { Slot(0, 0, ACROSS, 3), Slot(0, 1, DOWN, 3) },
      \* an across slot with a down slot at each end
      { Slot(0, 0, ACROSS, 3), Slot(0, 0, DOWN, 3), Slot(0, 2, DOWN, 3) },
      \* two across slots that share no cell
      { Slot(0, 0, ACROSS, 3), Slot(2, 0, ACROSS, 3) },
      \* an across slot of length 3 and a down slot of length 2 at its end
      { Slot(0, 0, ACROSS, 3), Slot(0, 2, DOWN, 2) } }

Range(f) == { f[x] : x \in DOMAIN f }

\* all the sequences that list the finite set S once each
Orderings(S) ==
    { f \in [1..Cardinality(S) -> S] : \A a, b \in DOMAIN f : f[a] = f[b] => a = b }

\* Variable.cells: the grid cells of a slot, in word order
Cells(v) ==
    [k \in 1..v.length |->
        <<v.i + (IF v.direction = DOWN THEN k - 1 ELSE 0),
          v.j + (IF v.direction = ACROSS THEN k - 1 ELSE 0)>>]

IndexOf(seq, e) == CHOOSE k \in DOMAIN seq : seq[k] = e

NoOverlap == <<>>

\* Crossword.overlaps[(v1, v2)]: None, or the 0-based index pair of the shared cell
Overlap(v1, v2) ==
    LET common == Range(Cells(v1)) \cap Range(Cells(v2))
    IN  IF common = {} THEN NoOverlap
        ELSE LET c == CHOOSE c \in common : TRUE
             IN  <<IndexOf(Cells(v1), c) - 1, IndexOf(Cells(v2), c) - 1>>

\* Crossword.neighbors(var)
Neighbors(var) ==
    { v \in crossword.variables : v /= var /\ Overlap(v, var) /= NoOverlap }

\* word[k] of the source
At(word, k) == word[k + 1]

----------------------------------------------------------------------------
(* The pure parts of CrosswordCreator *)

\* enforce_node_consistency with the test of line 107 written len(word) < domain.length
NodeConsistentShortOnly(dom) ==
    [domain \in DOMAIN dom |->
        { word \in dom[domain] : ~ (Len(word) < domain.length) }]

\* enforce_node_consistency removing at most one word per slot in a run
NodeConsistentRemovesOne(dom) ==
    [domain \in DOMAIN dom |->
        LET wrong == { word \in dom[domain] : Len(word) /= domain.length }
        IN  IF wrong = {} THEN dom[domain]
            ELSE dom[domain] \ {CHOOSE word \in wrong : TRUE}]

\* the domains after enforce_node_consistency
NodeConsistent(dom) ==
    [domain \in DOMAIN dom |->
        LET wordsToRemoveFromDomain ==
                { word \in dom[domain] : Len(word) /= domain.length }
        IN  dom[domain] \ wordsToRemoveFromDomain]

\* revise with match reset by every word of y that differs: a word of x is kept
\* only if every word of y agrees with it
ReviseNeedsAll(dom, x, y) ==
    LET overlap == Overlap(x, y)
        toRemove ==
            { varX \in dom[x] :
                /\ overlap /= NoOverlap
                /\ \E varY \in dom[y] : At(varX, overlap[1]) /= At(varY, overlap[2]) }
    IN  [domains |-> [dom EXCEPT ![x] = dom[x] \ toRemove],
         revised |-> toRemove /= {}]

\* revise without line 135: revised is never set
ReviseNeverReports(dom, x, y) ==
    LET overlap == Overlap(x, y)
        toRemove ==
            { varX \in dom[x] :
                /\ overlap /= NoOverlap
                /\ ~ \E varY \in dom[y] : At(varX, overlap[1]) = At(varY, overlap[2]) }
    IN  [domains |-> [dom EXCEPT ![x] = dom[x] \ toRemove],
         revised |-> FALSE]

\* revise with the test of line 126 moved inside the loop over y's words: without
\* an overlap no match is found and every word of x is removed
ReviseUnmatchedWithoutOverlap(dom, x, y) ==
    LET overlap == Overlap(x, y)
        toRemove ==
            { varX \in dom[x] :
                \/ overlap = NoOverlap
                \/ ~ \E varY \in dom[y] : At(varX, overlap[1]) = At(varY, overlap[2]) }
    IN  [domains |-> [dom EXCEPT ![x] = dom[x] \ toRemove],
         revised |-> toRemove /= {}]

\* revise with revised = True at line 121: a revision is reported even when no
\* word was removed
ReviseAlwaysReports(dom, x, y) ==
    LET overlap == Overlap(x, y)
        toRemove ==
            { varX \in dom[x] :
                /\ overlap /= NoOverlap
                /\ ~ \E varY \in dom[y] : At(varX, overlap[1]) = At(varY, overlap[2]) }
    IN  [domains |-> [dom EXCEPT ![x] = dom[x] \ toRemove],
         revised |-> TRUE]

\* revise(x, y): the domains it leaves and the value it returns
Revise(dom, x, y) ==
    LET overlap == Overlap(x, y)
        toRemove ==
            { varX \in dom[x] :
                /\ overlap /= NoOverlap
                /\ ~ \E varY \in dom[y] : At(varX, overlap[1]) = At(varY, overlap[2]) }
    IN  [domains |-> [dom EXCEPT ![x] = dom[x] \ toRemove],
         revised |-> toRemove /= {}]

\* ac3 without lines 171-173: nothing is appended after a revision
Ac3RequeueNothing(X, Y) == {}

\* ac3, lines 171-173: the slots Z whose arc (Z, X) is appended after X was revised
Ac3Requeue(X, Y) == { Z \in Neighbors(X) : Z /= Y }

\* ac3 with arcs=None: the initial queue, in the iteration order of self.domains
AllArcs ==
    LET n == Len(keys)
        pairs == [p \in 1..(n * n) |-> <<keys[((p - 1) \div n) + 1], keys[((p - 1) % n) + 1]>>]
    IN  SelectSeq(pairs, LAMBDA a : a[1] /= a[2] /\ Overlap(a[1], a[2]) /= NoOverlap)

\* assignment_complete(assignment)
AssignmentComplete(asg) == \A domain \in DOMAIN domains : domain \in DOMAIN asg

\* consistent with the test of lines 198-199 made inside the loop over the
\* neighbours: only crossing slots are kept from holding the same word
ConsistentDistinctNeighboursOnly(asg) ==
    \A key \in DOMAIN asg :
        /\ key.length = Len(asg[key])
        /\ \A neighbour \in Neighbors(key) :
              neighbour \in DOMAIN asg =>
                 /\ asg[neighbour] /= asg[key]
                 /\ At(asg[neighbour], Overlap(key, neighbour)[2])
                       = At(asg[key], Overlap(key, neighbour)[1])

\* consistent without lines 198-199: a word may be used twice
ConsistentNoDistinct(asg) ==
    \A key \in DOMAIN asg :
        /\ key.length = Len(asg[key])
        /\ \A neighbour \in Neighbors(key) :
              neighbour \in DOMAIN asg =>
                 At(asg[neighbour], Overlap(key, neighbour)[2])
                    = At(asg[key], Overlap(key, neighbour)[1])

\* consistent(assignment)
Consistent(asg) ==
    \A key \in DOMAIN asg :
        /\ key.length = Len(asg[key])
        /\ \A other \in DOMAIN asg \ {key} : asg[other] /= asg[key]
        /\ \A neighbour \in Neighbors(key) :
              neighbour \in DOMAIN asg =>
                 At(asg[neighbour], Overlap(key, neighbour)[2])
                    = At(asg[key], Overlap(key, neighbour)[1])

\* the count without lines 226-227: assigned neighbours are counted too
RuledOutCountsAssigned(dom, var, asg, value) ==
    LET ruledOut(neighbour) ==
            LET overlap == Overlap(var, neighbour)
            IN  { y \in dom[neighbour] : At(y, overlap[2]) /= At(value, overlap[1]) }
        conflicts == UNION { { <<neighbour, y>> : y \in ruledOut(neighbour) } :
                             neighbour \in Neighbors(var) }
    IN  Cardinality(conflicts)

\* the count order_domain_values gives a value of var
RuledOut(dom, var, asg, value) ==
    LET unassigned == { n \in Neighbors(var) : n \notin DOMAIN asg }
        ruledOut(neighbour) ==
            LET overlap == Overlap(var, neighbour)
            IN  { y \in dom[neighbour] : At(y, overlap[2]) /= At(value, overlap[1]) }
        conflicts == UNION { { <<neighbour, y>> : y \in ruledOut(neighbour) } :
                             neighbour \in unassigned }
    IN  Cardinality(conflicts)

\* order_domain_values(var, assignment): every order the stable sort can give,
\* the iteration order of the set self.domains[var] being arbitrary
OrderDomainValues(dom, var, asg) ==
    UNION { { s \in Orderings(dom[var]) :
                \A a, b \in DOMAIN s : a < b => listValues[s[a]] <= listValues[s[b]] } :
            listValues \in { [value \in dom[var] |-> RuledOut(dom, var, asg, value)] } }

\* the sort key with the domain size negated: the slot with most words comes first
SortKeyLessMostValues(dom, x, y) ==
    \/ Cardinality(dom[x]) > Cardinality(dom[y])
    \/ /\ Cardinality(dom[x]) = Cardinality(dom[y])
       /\ (0 - Cardinality(Neighbors(x))) < (0 - Cardinality(Neighbors(y)))

\* the sort key with line 254 written unassignedVars[key] = degree
SortKeyLessLowDegree(dom, x, y) ==
    \/ Cardinality(dom[x]) < Cardinality(dom[y])
    \/ /\ Cardinality(dom[x]) = Cardinality(dom[y])
       /\ Cardinality(Neighbors(x)) < Cardinality(Neighbors(y))

\* the sort key of select_unassigned_variable
SortKeyLess(dom, x, y) ==
    \/ Cardinality(dom[x]) < Cardinality(dom[y])
    \/ /\ Cardinality(dom[x]) = Cardinality(dom[y])
       /\ (0 - Cardinality(Neighbors(x))) < (0 - Cardinality(Neighbors(y)))

\* select_unassigned_variable(assignment): first of the stable sort
SelectUnassignedVariable(dom, asg) ==
    LET unassignedVars == SelectSeq(keys, LAMBDA key : key \notin DOMAIN asg)
        first == CHOOSE a \in DOMAIN unassignedVars :
                    /\ \A b \in DOMAIN unassignedVars :
                          ~ SortKeyLess(dom, unassignedVars[b], unassignedVars[a])
                    /\ \A b \in 1..(a - 1) :
                          SortKeyLess(dom, unassignedVars[a], unassignedVars[b])
    IN  unassignedVars[first]

\* inferences, lines 303-304: every assigned slot's domain becomes [its word]
Pin(dom, asg) ==
    [a \in DOMAIN dom |-> IF a \in DOMAIN asg THEN {asg[a]} ELSE dom[a]]

\* inferences without lines 327 and 335: the domains stay as the inference left them
NotRestored(copy) == domains

\* the domains rebuilt from the vocabulary by length instead of taken from the copy
RestoredFromVocabulary(copy) ==
    [var \in DOMAIN copy |-> { word \in crossword.words : Len(word) = var.length }]

\* inferences, lines 327 and 335: self.domains = varCopy
Restored(copy) == copy

\* assignment[var] = value of line 276 left out: the assignment never grows
PutNothing(asg, key, value) == asg

EmptyAssignment == [s \in {} |-> <<>>]

Put(asg, key, value) ==
    [s \in DOMAIN asg \cup {key} |-> IF s = key THEN value ELSE asg[s]]

Del(asg, key) == [s \in DOMAIN asg \ {key} |-> asg[s]]

NoRevise ==
    [called |-> FALSE, x |-> <<>>, y |-> <<>>, before |-> <<>>, after |-> <<>>,
     revised |-> FALSE]

\* no method is being called on its own
NoCall == [op |-> "none", args |-> <<>>, before |-> <<>>, ret |-> <<>>]

\* generate.py holds no tic-tac-toe board
NoBoard == <<>>

----------------------------------------------------------------------------
(* The state after CrosswordCreator(crossword) *)

Init ==
    /\ \E variables \in Structures :
       \E words \in { W \in SUBSET WordUniverse : Cardinality(W) <= MaxWords } :
          /\ crossword = [variables |-> variables, words |-> words]
          /\ keys \in Orderings(variables)
          /\ domains = [var \in variables |-> words]
    /\ pc = "solve"
    /\ queue = <<>>
    /\ ac3from = "solve"
    /\ ac3ret = "unset"
    /\ assignment = EmptyAssignment
    /\ stack = <<>>
    /\ varCopy = domains
    /\ result = EmptyAssignment
    /\ outcome = "running"
    /\ rev = NoRevise
    /\ call = NoCall
    /\ board = NoBoard

----------------------------------------------------------------------------
(* solve(), step by step *)

\* solve, line 93
EnforceNodeConsistency ==
    /\ pc = "solve"
    /\ domains' = NodeConsistent(domains)
    /\ pc' = "solve_ac3"
    /\ UNCHANGED <<board, call, crossword, keys, queue, ac3from, ac3ret, assignment, stack,
                   varCopy, result, outcome, rev>>

\* solve, line 94: ac3() is entered with arcs=None (lines 152-158)
Ac3Start ==
    /\ pc = "solve_ac3"
    /\ queue' = AllArcs
    /\ ac3from' = "solve"
    /\ pc' = "ac3"
    /\ UNCHANGED <<board, call, crossword, keys, domains, ac3ret, assignment, stack, varCopy,
                   result, outcome, rev>>

Ac3ReturnsTo ==
    IF ac3from = "solve" THEN "solve_bt"
    ELSE IF ac3from = "inferences" THEN "inf_ret"
    ELSE "returned"

\* one turn of ac3's while loop (lines 164-173)
Ac3Revise ==
    /\ pc = "ac3"
    /\ queue /= <<>>
    /\ \E X \in {Head(queue)[1]}, Y \in {Head(queue)[2]} :
       \E r \in {Revise(domains, X, Y)} :
           /\ domains' = r.domains
           /\ rev' = [called |-> TRUE, x |-> X, y |-> Y, before |-> domains,
                      after |-> r.domains, revised |-> r.revised]
           /\ IF r.revised /\ Cardinality(r.domains[X]) = 0
              THEN /\ ac3ret' = "False"
                   /\ pc' = Ac3ReturnsTo
                   /\ queue' = <<>>
              ELSE /\ \E zs \in Orderings(Ac3Requeue(X, Y)) :
                         queue' = Tail(queue) \o
                            (IF r.revised THEN [k \in DOMAIN zs |-> <<zs[k], X>>] ELSE <<>>)
                   /\ UNCHANGED <<ac3ret, pc>>
    /\ UNCHANGED <<board, call, crossword, keys, ac3from, assignment, stack, varCopy, result, outcome>>

\* ac3's worklist is empty: line 174
Ac3Done ==
    /\ pc = "ac3"
    /\ queue = <<>>
    /\ ac3ret' = "True"
    /\ pc' = Ac3ReturnsTo
    /\ UNCHANGED <<board, call, crossword, keys, domains, queue, ac3from, assignment, stack,
                   varCopy, result, outcome, rev>>

\* solve, line 95: the return value of ac3 is dropped, backtrack(dict()) is called
SolveBacktrack ==
    /\ pc = "solve_bt"
    /\ assignment' = EmptyAssignment
    /\ pc' = "backtrack"
    /\ UNCHANGED <<board, call, crossword, keys, domains, queue, ac3from, ac3ret, stack, varCopy,
                   result, outcome, rev>>

Top == stack[Len(stack)]

SetTop(frame) == [stack EXCEPT ![Len(stack)] = frame]

\* backtrack is entered (lines 271-275): a complete assignment is returned, and
\* every caller returns it at once (lines 286-287); otherwise the loop starts
BacktrackEnter ==
    /\ pc = "backtrack"
    /\ IF AssignmentComplete(assignment)
       THEN /\ result' = assignment
            /\ outcome' = "assignment"
            /\ pc' = "done"
            /\ stack' = <<>>
       ELSE /\ \E var \in {SelectUnassignedVariable(domains, assignment)} :
               \E values \in OrderDomainValues(domains, var, assignment) :
                  stack' = Append(stack, [var |-> var, values |-> values,
                                          idx |-> 1, inferences |-> "[]"])
            /\ pc' = "bt_loop"
            /\ UNCHANGED <<result, outcome>>
    /\ UNCHANGED <<board, call, crossword, keys, domains, queue, ac3from, ac3ret, assignment,
                   varCopy, rev>>

\* one candidate value (lines 275-279, and 289-292 when it is not consistent)
BacktrackTry ==
    /\ pc = "bt_loop"
    /\ Top.idx <= Len(Top.values)
    /\ \E var \in {Top.var}, value \in {Top.values[Top.idx]} :
       \E tried \in {Put(assignment, var, value)} :
           IF Consistent(tried)
           THEN /\ assignment' = tried
                /\ stack' = SetTop([Top EXCEPT !.inferences = "[]"])
                /\ pc' = "inferences"
           ELSE /\ assignment' = Del(tried, var)
                /\ stack' = SetTop([Top EXCEPT !.inferences = "[]", !.idx = @ + 1])
                /\ pc' = "bt_loop"
    /\ UNCHANGED <<board, call, crossword, keys, domains, queue, ac3from, ac3ret, varCopy,
                   result, outcome, rev>>

\* the loop of a backtrack call is exhausted: return None (line 293).  The caller,
\* if any, goes on at line 286 with result None: it deletes its own variable
\* (line 289) and evaluates len(inferences) (line 290), inferences being the
\* None that self.inferences returned.
BacktrackFail ==
    /\ pc = "bt_loop"
    /\ Top.idx > Len(Top.values)
    /\ IF Len(stack) = 1
       THEN /\ stack' = <<>>
            /\ outcome' = "None"
            /\ pc' = "done"
            /\ UNCHANGED assignment
       ELSE LET caller == stack[Len(stack) - 1]
                rest == SubSeq(stack, 1, Len(stack) - 1)
            IN  /\ assignment' = Del(assignment, caller.var)
                /\ IF caller.inferences = "None"
                   THEN /\ outcome' = "TypeError"
                        /\ pc' = "raised"
                        /\ stack' = rest
                   ELSE /\ stack' = [rest EXCEPT ![Len(rest)].idx = @ + 1]
                        /\ pc' = "bt_loop"
                        /\ UNCHANGED outcome
    /\ UNCHANGED <<board, call, crossword, keys, domains, queue, ac3from, ac3ret, varCopy, result, rev>>

\* inferences(var, assignment) up to its call of ac3 (lines 297-311); with no
\* neighbour it restores the domains and returns None (lines 333-336), and
\* backtrack recurses (line 285)
InferencesBegin ==
    /\ pc = "inferences"
    /\ varCopy' = domains
    /\ LET neighbours == Neighbors(Top.var)
       IN  IF neighbours = {}
           THEN /\ domains' = Restored(domains)
                /\ stack' = SetTop([Top EXCEPT !.inferences = "None"])
                /\ pc' = "backtrack"
                /\ UNCHANGED <<queue, ac3from>>
           ELSE /\ domains' = Pin(domains, assignment)
                /\ \E ys \in Orderings(neighbours) :
                      queue' = [k \in DOMAIN ys |-> <<ys[k], Top.var>>]
                /\ ac3from' = "inferences"
                /\ pc' = "ac3"
                /\ UNCHANGED stack
    /\ UNCHANGED <<board, call, crossword, keys, ac3ret, assignment, result, outcome, rev>>

\* inferences after its ac3 call (lines 312-332).  When ac3 returned False the
\* local name inferences is unbound at line 328, after the domains were put
\* back at line 327.  When a neighbour outside the assignment is left with one
\* word, line 319 pops it and line 322 calls self.inference, an attribute the
\* class does not have.  Otherwise inferences = {} and None is returned, and
\* backtrack recurses (line 285).
InferencesAfterAc3 ==
    /\ pc = "inf_ret"
    /\ LET collapsed == { y \in Neighbors(Top.var) :
                            y \notin DOMAIN assignment /\ Cardinality(domains[y]) = 1 }
       IN  IF ac3ret = "False"
           THEN /\ domains' = Restored(varCopy)
                /\ outcome' = "UnboundLocalError"
                /\ pc' = "raised"
                /\ UNCHANGED stack
           ELSE IF collapsed /= {}
           THEN /\ \E y \in collapsed : domains' = [domains EXCEPT ![y] = {}]
                /\ outcome' = "AttributeError"
                /\ pc' = "raised"
                /\ UNCHANGED stack
           ELSE /\ domains' = Restored(varCopy)
                /\ stack' = SetTop([Top EXCEPT !.inferences = "None"])
                /\ pc' = "backtrack"
                /\ UNCHANGED outcome
    /\ UNCHANGED <<board, call, crossword, keys, queue, ac3from, ac3ret, assignment, varCopy,
                   result, rev>>

Next ==
    \/ EnforceNodeConsistency
    \/ Ac3Start
    \/ Ac3Revise
    \/ Ac3Done
    \/ SolveBacktrack
    \/ BacktrackEnter
    \/ BacktrackTry
    \/ BacktrackFail
    \/ InferencesBegin
    \/ InferencesAfterAc3

Spec == Init /\ [][Next]_vars

\* solve() on one iteration order of the slots per structure
InitFair == Init /\ keys = CHOOSE order \in Orderings(crossword.variables) : TRUE

\* solve() runs in one thread of control: a step that can be taken is taken
SpecFair == InitFair /\ [][Next]_vars /\ WF_vars(Next)

----------------------------------------------------------------------------
(* solve() on a puzzle whose slots form a ring *)

\* two across and two down slots of length 3 around a 3 by 3 square: each slot
\* crosses two others at its ends
Ring ==
    { Slot(0, 0, ACROSS, 3), Slot(2, 0, ACROSS, 3),
      Slot(0, 0, DOWN, 3), Slot(0, 2, DOWN, 3) }

RingWords ==
    { <<"A","A","A">>, <<"A","A","B">>, <<"A","B","A">>, <<"B","A","B">> }

\* one iteration order of self.domains, which is that of the set crossword.variables
RingKeys ==
    <<Slot(0, 0, ACROSS, 3), Slot(0, 2, DOWN, 3), Slot(0, 0, DOWN, 3),
      Slot(2, 0, ACROSS, 3)>>

InitRing ==
    /\ crossword = [variables |-> Ring, words |-> RingWords]
    /\ keys = RingKeys
    /\ domains = [var \in Ring |-> RingWords]
    /\ pc = "solve"
    /\ queue = <<>>
    /\ ac3from = "solve"
    /\ ac3ret = "unset"
    /\ assignment = EmptyAssignment
    /\ stack = <<>>
    /\ varCopy = domains
    /\ result = EmptyAssignment
    /\ outcome = "running"
    /\ rev = NoRevise
    /\ call = NoCall
    /\ board = NoBoard

SpecRing == InitRing /\ [][Next]_vars

----------------------------------------------------------------------------
(* The methods of CrosswordCreator called on their own, one call per behaviour *)

\* consistent(assignment), line by line, the keys of assignment taken in the order
\* `order` from its k-th key on: the values it can return, or the IndexError that
\* line 207 raises when an assigned neighbour's word ends before the overlap index.
\* crossword.neighbors(key) is a set, so any neighbour that ends the loop can be
\* the first one met.
\* consistent with `return True` of line 209 inside the loop over the keys: only
\* the first key of the assignment is checked
ConsistentFromFirstKeyOnly(asg, order, k) ==
    IF k > Len(order) THEN {"True"}
    ELSE LET key == order[k]
             value == asg[key]
             neighbours == { n \in Neighbors(key) : n \in DOMAIN asg }
             raising == { n \in neighbours : Overlap(key, n)[2] >= Len(asg[n]) }
             differing ==
                 { n \in neighbours \ raising :
                     At(asg[n], Overlap(key, n)[2]) /= At(value, Overlap(key, n)[1]) }
         IN  IF key.length /= Len(value) THEN {"False"}
             ELSE IF raising = {} /\ differing = {} THEN {"True"}
             ELSE (IF raising /= {} THEN {"IndexError"} ELSE {})
                    \cup (IF differing /= {} THEN {"False"} ELSE {})

RECURSIVE ConsistentFrom(_, _, _)
ConsistentFrom(asg, order, k) ==
    IF k > Len(order) THEN {"True"}
    ELSE LET key == order[k]
             value == asg[key]
             allValues == { asg[order[j]] : j \in 1..(k - 1) }
             neighbours == { n \in Neighbors(key) : n \in DOMAIN asg }
             raising == { n \in neighbours : Overlap(key, n)[2] >= Len(asg[n]) }
             differing ==
                 { n \in neighbours \ raising :
                     At(asg[n], Overlap(key, n)[2]) /= At(value, Overlap(key, n)[1]) }
         IN  IF key.length /= Len(value) THEN {"False"}
             ELSE IF value \in allValues THEN {"False"}
             ELSE IF raising = {} /\ differing = {}
                  THEN ConsistentFrom(asg, order, k + 1)
             ELSE (IF raising /= {} THEN {"IndexError"} ELSE {})
                    \cup (IF differing /= {} THEN {"False"} ELSE {})

\* every outcome of consistent(assignment), the iteration order of the dict being
\* the order its keys were inserted in
ConsistentOutcomes(asg) ==
    UNION { ConsistentFrom(asg, order, 1) : order \in Orderings(DOMAIN asg) }

\* the words of the vocabulary that have the length of var
FitWords(words, var) == { word \in words : Len(word) = var.length }

\* the assignments a caller can pass: some slots, each with a word of `words`
Assignments(variables, words) ==
    UNION { [A -> words] : A \in SUBSET variables }

\* a CrosswordCreator whose method `op` is about to be called with `args`
Calling(op, args) ==
    /\ call = [op |-> op, args |-> args, before |-> domains, ret |-> <<>>]
    /\ pc = "call"

InitCalls ==
    /\ \E variables \in Structures :
       \E words \in { W \in SUBSET WordUniverse : Cardinality(W) <= MaxWords } :
          /\ crossword = [variables |-> variables, words |-> words]
          /\ \/ \* consistent(assignment), any assignment
                /\ domains = [var \in variables |-> words]
                /\ assignment \in Assignments(variables, words)
                /\ Calling("consistent", <<>>)
             \/ \* order_domain_values(var, assignment) on node-consistent domains,
                \* var unassigned. The method reads only the keys of assignment:
                \* each assigned slot holds one word of its domain.
                /\ \E var \in variables :
                   \E A \in SUBSET (variables \ {var}) :
                      /\ domains \in [variables -> SUBSET words]
                      /\ \A other \in variables :
                            /\ domains[other] \subseteq FitWords(words, other)
                            /\ (other /= var /\ Overlap(var, other) = NoOverlap) =>
                                  domains[other] = FitWords(words, other)
                            /\ other \in A => domains[other] /= {}
                      /\ assignment = [a \in A |-> CHOOSE word \in domains[a] : TRUE]
                      /\ Calling("order_domain_values", <<var>>)
             \/ \* revise(x, y): any two domains when x and y share no cell,
                \* node-consistent ones when they do
                /\ \E x, y \in variables :
                      /\ x /= y
                      /\ domains \in [variables -> SUBSET words]
                      /\ \A var \in variables \ {x, y} : domains[var] = words
                      /\ Overlap(x, y) /= NoOverlap =>
                            \A var \in {x, y} : domains[var] \subseteq FitWords(words, var)
                      /\ Calling("revise", <<x, y>>)
                /\ assignment = EmptyAssignment
             \/ \* ac3() with no arc list on the node-consistent domains, the slots
                \* in any key order
                /\ domains = [var \in variables |-> FitWords(words, var)]
                /\ assignment = EmptyAssignment
                /\ \E order \in Orderings(variables) :
                      /\ keys = order
                      /\ Calling("ac3", <<>>)
             \/ \* enforce_node_consistency() with any words in the domains, every
                \* slot starting from the same ones as after construction
                /\ \E D \in SUBSET words : domains = [var \in variables |-> D]
                /\ assignment = EmptyAssignment
                /\ Calling("enforce_node_consistency", <<>>)
    /\ call.op /= "ac3" => keys = CHOOSE order \in Orderings(crossword.variables) : TRUE
    /\ queue = <<>>
    /\ ac3from = "call"
    /\ ac3ret = "unset"
    /\ stack = <<>>
    /\ varCopy = domains
    /\ result = EmptyAssignment
    /\ outcome = "running"
    /\ rev = NoRevise
    /\ board = NoBoard

CallConsistent ==
    /\ pc = "call"
    /\ call.op = "consistent"
    /\ \E ret \in ConsistentOutcomes(assignment) :
          /\ call' = [call EXCEPT !.ret = ret]
          /\ pc' = IF ret = "IndexError" THEN "raised" ELSE "returned"
          /\ outcome' = IF ret = "IndexError" THEN "IndexError" ELSE outcome
    /\ UNCHANGED <<board, crossword, keys, domains, queue, ac3from, ac3ret, assignment,
                   stack, varCopy, result, rev>>

CallOrderDomainValues ==
    /\ pc = "call"
    /\ call.op = "order_domain_values"
    /\ \E values \in OrderDomainValues(domains, call.args[1], assignment) :
          call' = [call EXCEPT !.ret = values]
    /\ pc' = "returned"
    /\ UNCHANGED <<board, crossword, keys, domains, queue, ac3from, ac3ret, assignment,
                   stack, varCopy, result, outcome, rev>>

CallRevise ==
    /\ pc = "call"
    /\ call.op = "revise"
    /\ LET x == call.args[1]
           y == call.args[2]
           r == Revise(domains, x, y)
       IN  /\ domains' = r.domains
           /\ rev' = [called |-> TRUE, x |-> x, y |-> y, before |-> domains,
                      after |-> r.domains, revised |-> r.revised]
           /\ call' = [call EXCEPT !.ret = r.revised]
    /\ pc' = "returned"
    /\ UNCHANGED <<board, crossword, keys, queue, ac3from, ac3ret, assignment, stack,
                   varCopy, result, outcome>>

\* enforce_node_consistency(), called a first time and then a second time
CallEnforceNodeConsistency ==
    /\ call.op = "enforce_node_consistency"
    /\ \/ /\ pc = "call"
          /\ pc' = "once"
          /\ UNCHANGED varCopy
       \/ /\ pc = "once"
          /\ pc' = "twice"
          /\ varCopy' = domains
    /\ domains' = NodeConsistent(domains)
    /\ UNCHANGED <<board, call, crossword, keys, queue, ac3from, ac3ret, assignment, stack,
                   result, outcome, rev>>

\* ac3() is called with arcs=None (lines 152-158); its loop is Ac3Revise and Ac3Done
CallAc3 ==
    /\ pc = "call"
    /\ call.op = "ac3"
    /\ queue' = AllArcs
    /\ pc' = "ac3"
    /\ UNCHANGED <<board, call, crossword, keys, domains, ac3from, ac3ret, assignment, stack,
                   varCopy, result, outcome, rev>>

NextCalls ==
    \/ CallConsistent
    \/ CallOrderDomainValues
    \/ CallRevise
    \/ CallEnforceNodeConsistency
    \/ CallAc3
    \/ Ac3Revise
    \/ Ac3Done

SpecCalls == InitCalls /\ [][NextCalls]_vars

----------------------------------------------------------------------------
(* Properties of solve() and of its parts *)

Slots == crossword.variables

Overlapping(X, Y) == X /= Y /\ Overlap(X, Y) /= NoOverlap

\* a complete assignment that meets the three constraints of the puzzle
ValidSolution(asg) ==
    /\ DOMAIN asg = Slots
    /\ \A S \in Slots : Len(asg[S]) = S.length
    /\ \A S, T \in Slots : S /= T => asg[S] /= asg[T]
    /\ \A S, T \in Slots :
          Overlapping(S, T) =>
             At(asg[S], Overlap(S, T)[1]) = At(asg[T], Overlap(S, T)[2])

\* exhaustive search over every way to give each slot a vocabulary word
SolutionExists ==
    \E asg \in [Slots -> crossword.words] : ValidSolution(asg)

Finished == pc \in {"done", "raised"}

\* every word of X's domain has a partner in Y's domain at the overlap
ArcConsistent(dom, X, Y) ==
    \A wx \in dom[X] :
        \E wy \in dom[Y] : At(wx, Overlap(X, Y)[1]) = At(wy, Overlap(X, Y)[2])

\* C1: whenever solve() returns an assignment, it has every slot as a key, each
\* word has its slot's length, no word is used twice, and overlapping slots
\* agree at their overlap.
C1_SolveReturnsValid == outcome = "assignment" => ValidSolution(result)

C1_Witness ==
    /\ outcome = "assignment"
    /\ Cardinality(Slots) = 3
    /\ \E S, T \in Slots : Overlapping(S, T)

\* C2: if a valid complete assignment exists, solve() returns a complete
\* assignment; it neither returns None nor raises.
C2_Completeness == (Finished /\ SolutionExists) => outcome = "assignment"

\* C3: solve() always ends by returning an assignment or None, never in a
\* raised exception.
C3_NoFault == pc /= "raised"

\* C4: solve() returns None only when no valid complete assignment exists.
C4_NoneOnlyIfUnsolvable == outcome = "None" => ~ SolutionExists

C4_Witness ==
    /\ outcome = "None"
    /\ \A S \in Slots : \E w \in crossword.words : Len(w) = S.length
    /\ \E S, T \in Slots : Overlapping(S, T)

\* C5: when ac3 called with no arc list returns True, every ordered pair of
\* overlapping slots is arc consistent in the domains it leaves.
C5_Ac3ArcConsistent ==
    (pc = "solve_bt" /\ ac3ret = "True") =>
        \A X, Y \in Slots : Overlapping(X, Y) => ArcConsistent(domains, X, Y)

C5_Witness ==
    /\ pc = "solve_bt"
    /\ ac3ret = "True"
    /\ Cardinality(Slots) = 3
    /\ \A S \in Slots : domains[S] /= {}
    /\ \E S \in Slots : domains[S] /= { w \in crossword.words : Len(w) = S.length }

\* C6: after enforce_node_consistency each slot's domain is exactly the set of
\* vocabulary words of the slot's length.
C6_NodeConsistency ==
    pc = "solve_ac3" =>
        \A S \in Slots :
            /\ \A w \in domains[S] : Len(w) = S.length
            /\ \A w \in crossword.words : Len(w) = S.length => w \in domains[S]

C6_Witness ==
    /\ pc = "solve_ac3"
    /\ \E S \in Slots : domains[S] /= {} /\ domains[S] /= crossword.words

\* C7: for overlapping X and Y, revise(X, Y) removes from X's domain exactly
\* the words with no partner in Y's domain, returns True iff it removed a
\* word, and leaves every other domain as it was.
C7_Revise ==
    (rev.called /\ Overlapping(rev.x, rev.y)) =>
        LET unsupported ==
                { wx \in rev.before[rev.x] :
                    \A wy \in rev.before[rev.y] :
                        At(wx, Overlap(rev.x, rev.y)[1]) /= At(wy, Overlap(rev.x, rev.y)[2]) }
        IN  /\ rev.after[rev.x] = rev.before[rev.x] \ unsupported
            /\ rev.revised <=> (rev.after[rev.x] /= rev.before[rev.x])
            /\ \A S \in Slots \ {rev.x} : rev.after[S] = rev.before[S]

C7_Witness ==
    /\ rev.called
    /\ Overlapping(rev.x, rev.y)
    /\ rev.revised
    /\ rev.after[rev.x] /= {}
    /\ rev.after[rev.x] /= rev.before[rev.x]

\* C8: ac3 never returns True while some slot's domain is empty.
C8_Ac3TrueNoEmptyDomain ==
    (pc \in {"solve_bt", "inf_ret"} /\ ac3ret = "True") =>
        \A S \in Slots : domains[S] /= {}

\* C9: every step either only removes words from the domains or puts the
\* domain store back to the snapshot inferences took.
C9_DomainsOnlyShrink ==
    [][ \/ \A S \in Slots : domains'[S] \subseteq domains[S]
        \/ domains' = varCopy ]_vars

C9_Witness ==
    /\ pc = "backtrack"
    /\ stack /= <<>>
    /\ rev.called
    /\ domains /= rev.after
    /\ \E S \in Slots : rev.after[S] /= domains[S] /\ rev.after[S] \subseteq domains[S]

\* C10: select_unassigned_variable returns a slot outside the assignment whose
\* domain is smallest among the unassigned slots and whose degree is greatest
\* among the unassigned slots with that domain size.
C10_SelectMRVDegree ==
    (pc = "bt_loop" /\ Top.idx = 1) =>
        LET unassigned == Slots \ DOMAIN assignment
            size(S) == Cardinality(domains[S])
            degree(S) == Cardinality({ T \in Slots : Overlapping(S, T) })
        IN  /\ Top.var \in unassigned
            /\ \A S \in unassigned : size(Top.var) <= size(S)
            /\ \A S \in unassigned :
                  size(S) = size(Top.var) => degree(S) <= degree(Top.var)

C10_Witness ==
    /\ pc = "bt_loop"
    /\ Top.idx = 1
    /\ \E S \in Slots \ DOMAIN assignment :
          /\ Cardinality(domains[S]) = Cardinality(domains[Top.var])
          /\ Cardinality(Neighbors(S)) < Cardinality(Neighbors(Top.var))

----------------------------------------------------------------------------
(* Properties of the methods called on their own *)

Called(op) == call.op = op /\ pc = "returned"

\* the words of the domains of var's unassigned overlapping slots that differ from
\* word at the overlap position, each with its slot
Eliminated(var, word) ==
    UNION { LET at == Overlap(var, n)
            IN  { <<n, y>> : y \in { y \in domains[n] : y[at[2] + 1] /= word[at[1] + 1] } } :
            n \in { n \in Slots \ DOMAIN assignment : Overlapping(var, n) } }

\* C11: order_domain_values(var, assignment) lists every word of var's domain once,
\* in non-decreasing order of the number of words of the domains of var's
\* unassigned neighbours that differ from it at the overlap; assigned neighbours
\* add nothing to the count.
C11_OrderDomainValues ==
    Called("order_domain_values") =>
        LET var == call.args[1]
            values == call.ret
            count == [word \in domains[var] |-> Cardinality(Eliminated(var, word))]
        IN  /\ Range(values) = domains[var]
            /\ Len(values) = Cardinality(domains[var])
            /\ \A a, b \in DOMAIN values : a < b => count[values[a]] <= count[values[b]]

\* a call whose slot has an unassigned neighbour that tells two of its words apart
\* and an assigned neighbour whose domain has a word differing from the first value
C11_Witness ==
    /\ Called("order_domain_values")
    /\ Len(call.ret) >= 2
    /\ Cardinality(Eliminated(call.args[1], call.ret[1]))
          < Cardinality(Eliminated(call.args[1], call.ret[Len(call.ret)]))
    /\ \E n \in DOMAIN assignment :
          /\ Overlapping(call.args[1], n)
          /\ \E y \in domains[n] :
                y[Overlap(n, call.args[1])[1] + 1]
                    /= call.ret[1][Overlap(call.args[1], n)[1] + 1]

\* the words of asg fit their slots, are pairwise different, and put the same
\* letter in every cell that two assigned slots share
ValidPartial(asg) ==
    /\ \A X \in DOMAIN asg : Len(asg[X]) = X.length
    /\ \A X, Y \in DOMAIN asg : X /= Y => asg[X] /= asg[Y]
    /\ \A X, Y \in DOMAIN asg :
          Overlapping(X, Y) =>
             \A a \in 1..X.length, b \in 1..Y.length :
                Cells(X)[a] = Cells(Y)[b] => asg[X][a] = asg[Y][b]

\* C12: consistent(assignment) returns True exactly when every assigned word has
\* its slot's length, no two assigned slots hold the same word, and every two
\* assigned overlapping slots agree at the overlap; unassigned slots impose nothing.
C12_ConsistentIff ==
    (call.op = "consistent" /\ pc \in {"returned", "raised"}) =>
        (call.ret = "True" <=> ValidPartial(assignment))

\* consistent returned True for two assigned slots that cross, a third slot of the
\* puzzle being unassigned
C12_Witness ==
    /\ Called("consistent")
    /\ call.ret = "True"
    /\ \E X, Y \in DOMAIN assignment : Overlapping(X, Y)
    /\ Slots \ DOMAIN assignment /= {}

SharesCell(X, Y) == Range(Cells(X)) \cap Range(Cells(Y)) /= {}

\* C14: for two slots X and Y that share no cell, revise(X, Y) removes nothing from
\* any domain and returns False whatever the two domains are, Y's being empty
\* included; ac3 started with no arc list never has the arc (X, Y) in its queue.
C14_NoOverlapNoRevision ==
    /\ (rev.called /\ ~ SharesCell(rev.x, rev.y)) =>
          /\ rev.after = rev.before
          /\ domains = rev.before
          /\ rev.revised = FALSE
    /\ (pc = "ac3" /\ ac3from \in {"solve", "call"}) =>
          \A k \in DOMAIN queue : SharesCell(queue[k][1], queue[k][2])

\* revise(X, Y) has returned for X and Y sharing no cell, X with words of which
\* none has its length and Y with no word at all
C14_Witness ==
    /\ Called("revise")
    /\ ~ SharesCell(call.args[1], call.args[2])
    /\ call.before[call.args[2]] = {}
    /\ \E word \in call.before[call.args[1]] : Len(word) /= call.args[1].length
    /\ \E word \in call.before[call.args[1]] : Len(word) = call.args[1].length

\* C15: running enforce_node_consistency twice in a row leaves every slot's domain
\* equal to what a single run leaves.
C15_NodeConsistencyIdempotent ==
    (call.op = "enforce_node_consistency" /\ pc = "twice") =>
        \A S \in Slots : domains[S] = varCopy[S]

\* the second run has ended, the first one having removed two words or more from
\* one slot and left it a word
C15_Witness ==
    /\ call.op = "enforce_node_consistency"
    /\ pc = "twice"
    /\ \E S \in Slots :
          /\ Cardinality(call.before[S] \ varCopy[S]) >= 2
          /\ varCopy[S] /= {}

----------------------------------------------------------------------------
(* Properties of the search of solve() *)

NoWordForSomeSlot ==
    \E S \in Slots : \A word \in crossword.words : Len(word) /= S.length

\* C13 as stated: if the vocabulary has no word of the length of some slot, solve()
\* returns None after node consistency alone, without calling backtrack.
C13_NoneWithoutBacktrack ==
    NoWordForSomeSlot =>
        /\ pc \notin {"ac3", "solve_bt", "backtrack", "bt_loop"}
        /\ Finished => outcome = "None"

\* C13, amended: if the vocabulary has no word of the length of some slot, solve()
\* returns None and never raises; it runs node consistency, ac3 and one call of
\* backtrack, which finds no value to try: no slot is ever assigned and backtrack
\* is never called recursively.
C13_NoneWithoutAssigning ==
    NoWordForSomeSlot =>
        /\ assignment = EmptyAssignment
        /\ Len(stack) <= 1
        /\ pc = "bt_loop" => Top.values = <<>>
        /\ pc \notin {"inferences", "inf_ret", "raised"}
        /\ Finished => outcome = "None"

\* solve() has returned None for a puzzle in which one slot has no word of its
\* length and another slot has one
C13_Witness ==
    /\ NoWordForSomeSlot
    /\ \E S \in Slots : \E word \in crossword.words : Len(word) = S.length
    /\ pc = "done"
    /\ outcome = "None"

\* a recursive call of backtrack has tried all its values and is about to return None
RecursiveCallFails ==
    /\ pc = "bt_loop"
    /\ Len(stack) > 1
    /\ Top.idx > Len(Top.values)

\* C16: when the recursive backtrack call made for a tentatively assigned value
\* returns failure, the caller removes that value, so that the assignment and the
\* domain store are as before the value was tried, and goes on in its loop with
\* the next candidate value of the same slot.
C16_UndoAndTryNext ==
    [][ RecursiveCallFails =>
          LET caller == stack[Len(stack) - 1]
          IN  /\ pc' = "bt_loop"
              /\ Len(stack') = Len(stack) - 1
              /\ stack'[Len(stack')].var = caller.var
              /\ stack'[Len(stack')].idx = caller.idx + 1
              /\ assignment' = Del(assignment, caller.var)
              /\ domains' = domains ]_vars

\* the arc-consistency run of the inference step has returned False
InferenceAc3Failed == pc = "inf_ret" /\ ac3ret = "False"

\* C17: when the arc-consistency run of the inference step empties some domain for
\* a tentatively assigned value, the search abandons that value: it does not
\* recurse on it, it removes it from the assignment and goes on in the same loop
\* with the next candidate value.
C17_AbandonValue ==
    [][ InferenceAc3Failed =>
          /\ pc' = "bt_loop"
          /\ Len(stack') = Len(stack)
          /\ stack'[Len(stack')].var = Top.var
          /\ stack'[Len(stack')].idx = Top.idx + 1
          /\ assignment' = Del(assignment, Top.var) ]_vars

\* the unassigned neighbours of the slot just assigned that have one word left
Collapsed ==
    { y \in Slots :
        /\ Overlapping(Top.var, y)
        /\ y \notin DOMAIN assignment
        /\ Cardinality(domains[y]) = 1 }

\* the arc-consistency run of the inference step has returned True and has left
\* an unassigned neighbour with exactly one word
InferenceCollapsed == pc = "inf_ret" /\ ac3ret = "True" /\ Collapsed /= {}

\* C18: when the inference's arc-consistency run leaves an unassigned neighbour of
\* the assigned slot with exactly one word, that neighbour is added to the
\* assignment with that word before the search recurses.
C18_InferredNeighbourAssigned ==
    [][ InferenceCollapsed =>
          /\ pc' = "backtrack"
          /\ \A y \in Collapsed :
                /\ y \in DOMAIN assignment'
                /\ assignment'[y] \in domains[y] ]_vars

\* a call of inferences has just ended, by returning to backtrack or by raising
InferencesEnded ==
    \/ pc = "backtrack" /\ stack /= <<>>
    \/ pc = "raised" /\ outcome \in {"AttributeError", "UnboundLocalError"}

\* C19: every call of inferences leaves the domain store equal to what it was
\* when the call started, whether its arc-consistency run succeeded or failed and
\* whether or not a neighbour collapsed to a single word.
C19_InferencesRestoresDomains ==
    InferencesEnded => \A S \in Slots : domains[S] = varCopy[S]

\* C20: at every call of backtrack, the initial one and every recursive one, the
\* assignment passed in is consistent: each assigned word has its slot's length,
\* no two assigned slots hold the same word, and every two assigned overlapping
\* slots agree at the overlap position.
C20_BacktrackAssignmentConsistent ==
    pc = "backtrack" => ValidPartial(assignment)

\* a recursive call of backtrack with two crossing slots assigned and a slot left
C20_Witness ==
    /\ pc = "backtrack"
    /\ Len(stack) >= 2
    /\ \E X, Y \in DOMAIN assignment : Overlapping(X, Y)
    /\ Slots \ DOMAIN assignment /= {}

\* node consistency and the up-front ac3 are over and have left some slot without
\* a word.  Until an inference runs its own ac3, ac3from names the up-front call,
\* and the domains are those it left.
EmptyDomainAfterAc3 ==
    /\ ac3from = "solve"
    /\ pc \notin {"solve", "solve_ac3", "ac3"}
    /\ \E S \in Slots : domains[S] = {}

\* C21: if some slot's domain is empty after node consistency and the up-front
\* ac3, in particular whenever that ac3 call returned False, solve() returns None:
\* backtrack is still called, assigns no slot and never raises.
C21_NoneAfterEmptyDomain ==
    /\ (ac3from = "solve" /\ ac3ret = "False") => \E S \in Slots : domains[S] = {}
    /\ EmptyDomainAfterAc3 =>
          /\ assignment = EmptyAssignment
          /\ pc \notin {"inferences", "inf_ret", "raised"}
          /\ Finished => outcome = "None"

\* solve() has returned None after the up-front ac3 returned False, every slot
\* having a word of its length in the vocabulary and some slot still having words
C21_Witness ==
    /\ EmptyDomainAfterAc3
    /\ ac3ret = "False"
    /\ \A S \in Slots : \E word \in crossword.words : Len(word) = S.length
    /\ \E S \in Slots : domains[S] /= {}
    /\ pc = "done"
    /\ outcome = "None"

\* backtrack is called recursively, for the value just given to Top.var
RecursiveCall == pc = "backtrack" /\ stack /= <<>>

\* the words of the unassigned neighbours of the slot just assigned that differ
\* from its word at the overlap
Conflicting ==
    { e \in Slots \X crossword.words :
        /\ Overlapping(Top.var, e[1])
        /\ e[1] \notin DOMAIN assignment
        /\ LET at == Overlap(Top.var, e[1])
           IN  Len(e[2]) > at[2] /\ e[2][at[2] + 1] /= assignment[Top.var][at[1] + 1] }

\* C22 as stated: the recursive backtrack call runs on domains pruned by the
\* inference: the words of neighbouring slots that conflict with the assigned
\* value are absent from the domains used at the next level.
C22_RecursesOnPrunedDomains ==
    RecursiveCall => \A e \in Conflicting : e[2] \notin domains[e[1]]

\* C22, amended: the recursive backtrack call runs on the domains as they were
\* when the inference step started: the pruning of the inference is reverted, so
\* a conflicting word of a neighbouring slot that was in its domain before the
\* value was tried is still there at the next level.
C22_RecursesOnRestoredDomains ==
    RecursiveCall =>
        /\ \A S \in Slots : domains[S] = varCopy[S]
        /\ \A e \in Conflicting : e[2] \in varCopy[e[1]] => e[2] \in domains[e[1]]

\* a recursive call with a conflicting word in the domain of an unassigned
\* neighbour of the slot just assigned
C22_Witness ==
    /\ RecursiveCall
    /\ \E e \in Conflicting : e[2] \in domains[e[1]]

\* the arc-consistency run made by the inference step has returned True
InferenceAc3Succeeded == pc = "inf_ret" /\ ac3ret = "True"

\* C23: when the arc-consistency run made by the inference step returns success,
\* every ordered pair of overlapping slots is arc consistent in the resulting
\* domains, not only the arcs into the newly assigned slot.
C23_InferenceArcConsistent ==
    InferenceAc3Succeeded =>
        \A X, Y \in Slots : Overlapping(X, Y) => ArcConsistent(domains, X, Y)

----------------------------------------------------------------------------
(* Termination *)

\* C24: every call of ac3 terminates: a turn of its loop that does not shorten the
\* worklist follows a revision that removed at least one word from a domain, and
\* every running ac3 call comes to its return.
C24_Ac3Terminates ==
    /\ [][ (pc = "ac3" /\ pc' = "ac3" /\ Len(queue') >= Len(queue)) =>
              /\ rev'.revised
              /\ domains'[rev'.x] \subseteq domains[rev'.x]
              /\ domains'[rev'.x] /= domains[rev'.x] ]_vars
    /\ (pc = "ac3") ~> (pc /= "ac3")

\* ac3 is running and its last revision removed a word and appended an arc into
\* the revised slot
C24_Witness ==
    /\ pc = "ac3"
    /\ rev.called
    /\ rev.revised
    /\ rev.after[rev.x] /= rev.before[rev.x]
    /\ queue /= <<>>
    /\ queue[Len(queue)][2] = rev.x

\* C25: every call of solve() reaches its end; each recursive backtrack call has
\* one more assigned slot than its caller (the slots of the calls that are
\* active), and each call goes forward through a list of pairwise different
\* words of its slot's domain, so it tries each word at most once.
C25_SolveTerminates ==
    /\ <>Finished
    /\ [](pc = "backtrack" =>
            /\ DOMAIN assignment = { stack[k].var : k \in DOMAIN stack }
            /\ Cardinality(DOMAIN assignment) = Len(stack))
    /\ [](pc = "bt_loop" =>
            /\ Cardinality(Range(Top.values)) = Len(Top.values)
            /\ Range(Top.values) = domains[Top.var])
    /\ [][ (stack /= <<>> /\ Len(stack') = Len(stack)) =>
              /\ stack'[Len(stack')].var = Top.var
              /\ stack'[Len(stack')].values = Top.values
              /\ stack'[Len(stack')].idx >= Top.idx ]_vars

\* a recursive call made for the second word tried by its caller, itself made by
\* a recursive call
C25_Witness ==
    /\ pc = "backtrack"
    /\ Len(stack) >= 2
    /\ Top.idx >= 2


----------------------------------------------------------------------------
(* The tic-tac-toe player of src/tictactoe.py *)

\* the bound on the boards minimax is called on: at most this many empty cells
MaxEmpty == 4

X == "X"
O == "O"
None == "None"
EMPTY == None

\* float('inf'): above every utility
inf == 2

\* the cells (i, j) of the 3 x 3 board
Squares == { <<i, j>> : i \in 0..2, j \in 0..2 }

\* initial_state()
initial_state == [square \in Squares |-> EMPTY]

\* player(b)
player(b) ==
    LET xCount == Cardinality({ square \in Squares : b[square] = X })
        oCount == Cardinality({ square \in Squares : b[square] = O })
    IN  IF xCount > oCount THEN O ELSE X

\* actions(b)
actions(b) == { square \in Squares : b[square] = EMPTY }

\* result(b, action) without the check of line 57
ResultOverwrites(b, action) ==
    [raised |-> FALSE, ret |-> [b EXCEPT ![action] = player(b)], input |-> b]

\* result(b, action): whether it raised, what it returned, and the board object
\* it was given as that object is after the call.  The move is written into a
\* deep copy (lines 59-60), so the object given is left as it was.
Result(b, action) ==
    IF b[action] /= EMPTY
    THEN [raised |-> TRUE, ret |-> "Exception", input |-> b]
    ELSE LET boardResult == [square \in DOMAIN b |-> b[square]]
         IN  [raised |-> FALSE,
              ret |-> [boardResult EXCEPT ![action] = player(b)],
              input |-> b]

\* the lines winner looks at, in its order: rows, columns, the two diagonals
Lines ==
    << <<<<0, 0>>, <<0, 1>>, <<0, 2>>>>, <<<<1, 0>>, <<1, 1>>, <<1, 2>>>>,
       <<<<2, 0>>, <<2, 1>>, <<2, 2>>>>,
       <<<<0, 0>>, <<1, 0>>, <<2, 0>>>>, <<<<0, 1>>, <<1, 1>>, <<2, 1>>>>,
       <<<<0, 2>>, <<1, 2>>, <<2, 2>>>>,
       <<<<0, 0>>, <<1, 1>>, <<2, 2>>>>, <<<<0, 2>>, <<1, 1>>, <<2, 0>>>> >>

\* the k-th line holds three equal marks
ThreeInLine(b, k) ==
    /\ b[Lines[k][1]] /= EMPTY
    /\ b[Lines[k][1]] = b[Lines[k][2]]
    /\ b[Lines[k][2]] = b[Lines[k][3]]

\* winner(b): the mark of the first line, in the order of the checks, that holds
\* three equal marks
RECURSIVE WinnerFrom(_, _)
WinnerFrom(b, k) ==
    IF k > Len(Lines) THEN None
    ELSE IF ThreeInLine(b, k) THEN b[Lines[k][1]]
    ELSE WinnerFrom(b, k + 1)

winner(b) == WinnerFrom(b, 1)

\* terminal(b)
terminal(b) ==
    IF winner(b) /= None THEN TRUE
    ELSE IF Cardinality(actions(b)) = 0 THEN TRUE
    ELSE FALSE

\* utility(b)
utility(b) ==
    IF terminal(b)
    THEN IF winner(b) = X THEN 1
         ELSE IF winner(b) = O THEN -1
         ELSE 0
    ELSE 0

max(a, c) == IF a >= c THEN a ELSE c
min(a, c) == IF a <= c THEN a ELSE c

\* max_value and min_value (lines 135-158).  `order` is the order in which a set
\* of actions is iterated: the squares in some fixed order, those of the set taken.
\* The loops go through order from its k-th square on with the running v.
RECURSIVE max_value(_, _, _, _), max_value_loop(_, _, _, _, _, _)
RECURSIVE min_value(_, _, _, _), min_value_loop(_, _, _, _, _, _)

max_value(b, alpha, beta, order) ==
    IF terminal(b) THEN utility(b)
    ELSE max_value_loop(b, alpha, beta, order, 1, -inf)

max_value_loop(b, alpha, beta, order, k, v) ==
    IF k > Len(order) THEN v
    ELSE IF order[k] \notin actions(b) THEN max_value_loop(b, alpha, beta, order, k + 1, v)
    ELSE LET minValue == min_value(Result(b, order[k]).ret, alpha, beta, order)
             v2 == max(v, minValue)
             alpha2 == max(v2, alpha)
         IN  IF alpha2 >= beta THEN v2
             ELSE max_value_loop(b, alpha2, beta, order, k + 1, v2)

min_value(b, alpha, beta, order) ==
    IF terminal(b) THEN utility(b)
    ELSE min_value_loop(b, alpha, beta, order, 1, inf)

min_value_loop(b, alpha, beta, order, k, v) ==
    IF k > Len(order) THEN v
    ELSE IF order[k] \notin actions(b) THEN min_value_loop(b, alpha, beta, order, k + 1, v)
    ELSE LET maxValue == max_value(Result(b, order[k]).ret, alpha, beta, order)
             v2 == min(v, maxValue)
             beta2 == min(v2, beta)
         IN  IF alpha >= beta2 THEN v2
             ELSE min_value_loop(b, alpha, beta2, order, k + 1, v2)

\* the loop of minimax keeping the first action it meets
RECURSIVE MinimaxLoopKeepsFirst(_, _, _, _, _)
MinimaxLoopKeepsFirst(b, order, k, v, move) ==
    IF k > Len(order) THEN move
    ELSE IF order[k] \notin actions(b) THEN MinimaxLoopKeepsFirst(b, order, k + 1, v, move)
    ELSE MinimaxLoopKeepsFirst(b, order, k + 1, v, IF move = None THEN order[k] ELSE move)

\* the loop of minimax (lines 120-131) from the k-th square of order on, with the
\* running v and move
RECURSIVE minimax_loop(_, _, _, _, _)
minimax_loop(b, order, k, v, move) ==
    IF k > Len(order) THEN move
    ELSE IF order[k] \notin actions(b) THEN minimax_loop(b, order, k + 1, v, move)
    ELSE IF player(b) = X
    THEN LET minValue == min_value(Result(b, order[k]).ret, -inf, inf, order)
             v2 == max(v, minValue)
         IN  minimax_loop(b, order, k + 1, v2, IF v2 = minValue THEN order[k] ELSE move)
    ELSE LET maxValue == max_value(Result(b, order[k]).ret, -inf, inf, order)
             v2 == min(v, maxValue)
         IN  minimax_loop(b, order, k + 1, v2, IF v2 = maxValue THEN order[k] ELSE move)

\* minimax(b), its sets of actions iterated in the order `order`
minimax(b, order) ==
    IF terminal(b) THEN None
    ELSE minimax_loop(b, order, 1, IF player(b) = X THEN -inf ELSE inf, None)

\* the squares row by row, the order in which actions() adds them to its set
RowByRow == [k \in 1..9 |-> <<(k - 1) \div 3, (k - 1) % 3>>]

\* iteration orders of a set of actions: that order and its reverse
Orders ==
    { RowByRow,
      [k \in 1..9 |-> RowByRow[10 - k]] }

\* a game has begun: the board is initial_state()
InitTicTacToe ==
    /\ board = initial_state
    /\ pc = "play"
    /\ call = NoCall
    /\ crossword = [variables |-> {}, words |-> {}]
    /\ keys = <<>>
    /\ domains = <<>>
    /\ queue = <<>>
    /\ ac3from = "call"
    /\ ac3ret = "unset"
    /\ assignment = EmptyAssignment
    /\ stack = <<>>
    /\ varCopy = <<>>
    /\ result = EmptyAssignment
    /\ outcome = "running"
    /\ rev = NoRevise

\* the player to move makes a move: the board becomes result(board, action)
Play ==
    /\ pc = "play"
    /\ ~terminal(board)
    /\ \E action \in actions(board) : board' = Result(board, action).ret
    /\ UNCHANGED <<call, pc, crossword, keys, domains, queue, ac3from, ac3ret, assignment,
                   stack, varCopy, result, outcome, rev>>

\* result(board, action) called on the board of the game, on any square
CallResult ==
    /\ pc = "play"
    /\ \E action \in Squares :
       \E r \in {Result(board, action)} :
          /\ call' = [op |-> "result", args |-> <<action>>, before |-> board, ret |-> r.ret]
          /\ board' = r.input
          /\ pc' = IF r.raised THEN "raised" ELSE "returned"
          /\ outcome' = IF r.raised THEN "Exception" ELSE outcome
    /\ UNCHANGED <<crossword, keys, domains, queue, ac3from, ac3ret, assignment,
                   stack, varCopy, result, rev>>

\* minimax(board) called on the board of the game
CallMinimax ==
    /\ pc = "play"
    /\ Cardinality(actions(board)) <= MaxEmpty
    /\ \E order \in Orders :
          call' = [op |-> "minimax", args |-> <<>>, before |-> board,
                   ret |-> minimax(board, order)]
    /\ pc' = "returned"
    /\ UNCHANGED <<board, crossword, keys, domains, queue, ac3from, ac3ret, assignment,
                   stack, varCopy, result, outcome, rev>>

NextTicTacToe ==
    \/ Play
    \/ CallResult
    \/ CallMinimax

SpecTicTacToe == InitTicTacToe /\ [][NextTicTacToe]_vars

----------------------------------------------------------------------------
(* Tic-tac-toe: the claims *)

\* the value of the game from b under best play by both sides: the utility of a
\* board where the game is over, otherwise the best value the player to move
\* finds among the boards one move away
RECURSIVE GameValue(_), BestValue(_)
GameValue(b) == IF terminal(b) THEN utility(b) ELSE BestValue(b)

BestValue(b) ==
    LET values == { GameValue(Result(b, action).ret) : action \in actions(b) }
    IN  IF player(b) = X
        THEN CHOOSE v \in values : \A other \in values : v >= other
        ELSE CHOOSE v \in values : \A other \in values : v <= other

\* C26: on a board where the game goes on, minimax returns one of actions(board),
\* and the board that action leads to has the best value the player to move can
\* force (the largest for X, the smallest for O) when both sides play their
\* best; on a board where the game is over it returns None.
C26_MinimaxOptimal ==
    call.op = "minimax" =>
        IF terminal(call.before)
        THEN call.ret = None
        ELSE /\ call.ret \in actions(call.before)
             /\ GameValue(Result(call.before, call.ret).ret) = BestValue(call.before)

\* minimax has answered on a board with at least four empty squares where the
\* game goes on and where some move is worse than the best one
C26_Witness ==
    /\ call.op = "minimax"
    /\ ~terminal(call.before)
    /\ Cardinality(actions(call.before)) >= 4
    /\ call.ret \in actions(call.before)
    /\ \E action \in actions(call.before) :
          GameValue(Result(call.before, action).ret) /= BestValue(call.before)

\* C27: result(board, action) on an occupied square raises an exception and
\* leaves the board as it was; on an empty square it returns a board that
\* differs from the one given at that square only, where it holds
\* player(board), and the board given is not modified.
C27_ResultChecksSquare ==
    call.op = "result" =>
        IF call.before[call.args[1]] /= EMPTY
        THEN /\ pc = "raised"
             /\ call.ret = "Exception"
             /\ board = call.before
        ELSE /\ pc = "returned"
             /\ DOMAIN call.ret = Squares
             /\ \A square \in Squares \ {call.args[1]} :
                   call.ret[square] = call.before[square]
             /\ call.ret[call.args[1]] = player(call.before)
             /\ call.ret /= call.before
             /\ board = call.before

\* result has raised on a square that held a mark, on a board with marks of
\* both players and empty squares left
C27_Witness ==
    /\ call.op = "result"
    /\ pc = "raised"
    /\ call.before[call.args[1]] \in {X, O}
    /\ \E square \in Squares : call.before[square] = X
    /\ \E square \in Squares : call.before[square] = O
    /\ actions(call.before) /= {}
    /\ board = call.before

====
